---- MODULE Spec2Model ----
(***************************************************************************)
(* People Portal UI: the profile page (DashboardPeopleInfo) and its        *)
(* profile editor (EditProfileModal), modelled as a state machine.         *)
(*                                                                         *)
(* State: the React state of the two components, the asynchronous          *)
(* handlers in flight (each with the values its closure captured and the   *)
(* await it is suspended at), and the browser environment (time zone,      *)
(* backend data).  One action per handler step: the synchronous code       *)
(* between two awaits runs as one step, as on the UI event loop.           *)
(***************************************************************************)
EXTENDS Integers, Sequences, FiniteSets, TLC

VARIABLES
    \* environment
    tz,                 \* the browser's offset from UTC, in hours
    server,             \* the backend's data: users and their teams
    \* DashboardPeopleInfo
    userPk,             \* the route parameter
    user,               \* useState<UserInformationDetail | null>
    userTeamsMap,       \* useState<Map<string, TeamInformationBrief>>
    loading,
    isEditModalOpen,
    fetches,            \* the fetchData calls made so far, each with its position
    \* EditProfileModal
    mounted,            \* whether the editor is rendered (its state exists)
    phoneNumber,
    expectedGrad,
    selectedMajor,
    majors,
    isSaving,
    preview,
    avatarKey,
    isUploading,
    cropImage,
    crop,
    zoom,               \* in tenths: 10 is 1.0
    croppedAreaPixels,
    isCroppingOpen,
    majorsFetches,      \* the majors/list requests made so far
    fileTasks,          \* the onFileChange calls made so far
    runs,               \* the processAndUploadAvatar calls made so far
    save,               \* the latest handleSave call
    nSaves,
    \* history
    nNav,               \* changes of the route parameter so far
    mountUser,          \* the user prop the editor's state was initialised from
    edited,             \* the form fields the user has changed since then
    \* lib/validation
    validation          \* the latest validateFullName call: its argument and result

\* what no handler of the two components writes
envVars    == <<tz, server, validation>>
pageVars   == <<userPk, user, userTeamsMap, loading, isEditModalOpen, fetches, nNav>>
formVars   == <<phoneNumber, expectedGrad, selectedMajor, majors, edited>>
avatarVars == <<preview, avatarKey, isUploading>>
cropVars   == <<cropImage, crop, zoom, croppedAreaPixels, isCroppingOpen>>
saveVars   == <<isSaving, save, nSaves>>
mountVars  == <<mounted, mountUser>>
vars == <<tz, server, userPk, user, userTeamsMap, loading, isEditModalOpen,
          fetches, mounted, phoneNumber, expectedGrad, selectedMajor, majors,
          isSaving, preview, avatarKey, isUploading, cropImage, crop, zoom,
          croppedAreaPixels, isCroppingOpen, majorsFetches, fileTasks, runs,
          save, nSaves, nNav, mountUser, edited, validation>>

(***************************************************************************)
(* Bounds of the model.                                                    *)
(***************************************************************************)
MaxNav   == 1     \* changes of the route parameter
MaxFiles == 2     \* file selections
MaxRuns  == 2     \* Crop & Upload clicks that start a pipeline run
MaxSaves == 1     \* Save clicks

(***************************************************************************)
(* Values.  null and undefined are the strings "null" and "undefined"      *)
(* where the value is a string, and the record Null where it is an object. *)
(***************************************************************************)
Null == [null |-> TRUE]

Truthy(s) == s \notin {"", "null", "undefined"}

\* A date string: "yyyy-MM-dd" (kind "date", v the day number), an ISO
\* date-time "...T..:..:...Z" (kind "iso", v the hour number since the
\* epoch), the empty string, or undefined.
DateOnly(d)  == [k |-> "date", v |-> d]
IsoTime(t)   == [k |-> "iso", v |-> t]
EmptyDate    == [k |-> "empty", v |-> 0]
UndefDate    == [k |-> "undefined", v |-> 0]
DateTruthy(s) == s.k \in {"date", "iso"}

\* new Date(s): a date-only string is UTC midnight of that day, a date-time
\* with Z is that instant.  The result is an instant, in hours.
NewDate(s) == IF s.k = "date" THEN 24 * s.v ELSE s.v

\* format(date, 'yyyy-MM-dd') of date-fns: the calendar day of the instant
\* in the browser's time zone.
FormatYMD(t, offset) == DateOnly((t + offset) \div 24)

\* JSON.stringify of a Date: toISOString()
ToJSONDate(t) == IsoTime(t)

(***************************************************************************)
(* lib/validation: validateFullName.  A string is the sequence of its      *)
(* characters.                                                             *)
(***************************************************************************)
MaxNameLen == 5

\* the characters \s matches, of those the model draws names from
IsSpace(c) == c \in {" ", "\t"}

RECURSIVE TrimStart(_)
TrimStart(s) ==
    IF s # <<>> /\ IsSpace(Head(s)) THEN TrimStart(Tail(s)) ELSE s

RECURSIVE TrimEnd(_)
TrimEnd(s) ==
    IF s # <<>> /\ IsSpace(s[Len(s)]) THEN TrimEnd(SubSeq(s, 1, Len(s) - 1)) ELSE s

\* String.prototype.trim
Trim(s) == TrimEnd(TrimStart(s))

\* s.split(/\s+/), reading on from rest with the part cur begun: every
\* maximal run of whitespace separates two parts, which may be empty
RECURSIVE SplitFrom(_, _)
SplitFrom(rest, cur) ==
    IF rest = <<>> THEN << cur >>
    ELSE IF IsSpace(Head(rest))
    THEN << cur >> \o SplitFrom(TrimStart(rest), <<>>)
    ELSE SplitFrom(Tail(rest), Append(cur, Head(rest)))

Split(s) == SplitFrom(s, <<>>)

NonEmptyPart(part) == Len(part) > 0

Invalid(error) == [isValid |-> FALSE, error |-> error]
Valid          == [isValid |-> TRUE, error |-> "undefined"]

\* validateFullName accepting a single part
validateFullNameOnePart(fullName) ==
    IF fullName = <<>>
    THEN Invalid("Full name is required")
    ELSE LET trimmed == Trim(fullName)
             parts == SelectSeq(Split(trimmed), NonEmptyPart)
         IN  IF Len(parts) < 1
             THEN Invalid("Please provide both first and last name")
             ELSE Valid

validateFullName(fullName) ==
    IF fullName = <<>>
    THEN Invalid("Full name is required")
    ELSE LET trimmed == Trim(fullName)
             parts == SelectSeq(Split(trimmed), NonEmptyPart)
         IN  IF Len(parts) < 2
             THEN Invalid("Please provide both first and last name")
             ELSE Valid

NoValidation == [called |-> FALSE, fullName |-> <<>>, result |-> Valid]

\* a call validateFullName(fullName)
ValidateFullName(fullName) ==
    /\ validation' = [called |-> TRUE, fullName |-> fullName,
                      result |-> validateFullName(fullName)]
    /\ UNCHANGED <<tz, server, userPk, user, userTeamsMap, loading,
                   isEditModalOpen, fetches, mounted, phoneNumber, expectedGrad,
                   selectedMajor, majors, isSaving, preview, avatarKey,
                   isUploading, cropImage, crop, zoom, croppedAreaPixels,
                   isCroppingOpen, majorsFetches, fileTasks, runs, save, nSaves,
                   nNav, mountUser, edited>>

(***************************************************************************)
(* The backend's data.                                                     *)
(***************************************************************************)
Pks == {"u1", "u2"}
LoggedInPk == "u1"

Team(pk) == [pk |-> pk, name |-> pk, friendlyName |-> pk, teamType |-> "PROJECT"]

\* the body of a memberof response: { teams: [...] }, or one without teams
TeamsBody(ts) == [has |-> TRUE, teams |-> ts]
NoTeamsBody   == [has |-> FALSE, teams |-> <<>>]

Major(id, name) == [major_id |-> id, name |-> name]
MajorCS   == Major("m1", "Computer Science")
MajorMath == Major("m2", "Mathematics")
\* the directory either lists the users' majors or it does not
MajorsResponses == { <<MajorCS, MajorMath>>, <<MajorMath>> }

UserRecord(pk, uname, major, grad, phone, roles, key) ==
    [ pk |-> pk, username |-> uname, name |-> uname, email |-> uname,
      memberSince |-> "2024", active |-> TRUE, is_superuser |-> FALSE,
      avatar |-> "https://cdn/" \o pk, groups |-> <<>>, last_login |-> "2026",
      type |-> "internal", groupsInfo |-> <<>>,
      attributes |-> [ major |-> major, expectedGrad |-> grad,
                       phoneNumber |-> phone, roles |-> roles,
                       alumniAccount |-> FALSE, avatar |-> key ] ]

\* attributes.roles: an object from team pk to role title, held as its
\* Object.entries sequence of <<teamPk, roleTitle>>, or absent
Roles(entries) == [has |-> TRUE, entries |-> entries]
NoRoles        == [has |-> FALSE, entries |-> <<>>]

ServerWith(grad1, roles1, teams1) ==
    [ users |-> [ u1 |-> UserRecord("u1", "alice", "Computer Science", grad1,
                                    "+1301", roles1, "avatars/u1-old"),
                  u2 |-> UserRecord("u2", "bob", "Mathematics",
                                    DateOnly(20365), "+1240",
                                    Roles(<< <<"t2", "Member">> >>),
                                    "undefined") ],
      teams |-> [ alice |-> teams1, bob |-> TeamsBody(<< Team("t2") >>) ] ]

TzOffsets == {-5, 0}

(***************************************************************************)
(* EditProfileModal: the state its useState calls create from the user     *)
(* prop, and the majors request its effect sends.                          *)
(***************************************************************************)
Origin == [x |-> 0, y |-> 0]

MajorsRequest(u) == [major |-> u.attributes.major, pc |-> "pending", msg |-> ""]

InitialGrad(u, offset) ==
    IF DateTruthy(u.attributes.expectedGrad)
    THEN FormatYMD(NewDate(u.attributes.expectedGrad), offset)
    ELSE EmptyDate

\* A handleSave call: the values its closure captured, the PATCH it sent, how
\* the PATCH settled, the toast raised, the record passed to onSuccess and
\* the record of the page that setUser replaced with it.
SaveTask(pc, u, phone, major, grad, key, prev, ed, body) ==
    [ pc |-> pc, user |-> u, phoneNumber |-> phone, selectedMajor |-> major,
      expectedGrad |-> grad, avatarKey |-> key, preview |-> prev, edited |-> ed,
      body |-> body, outcome |-> "", msg |-> "", merged |-> Null,
      replaced |-> Null ]

IdleSave == SaveTask("idle", Null, "", Null, EmptyDate, "undefined", "null", {}, Null)

Unmounted ==
    /\ mounted = FALSE
    /\ mountUser = Null
    /\ phoneNumber = ""
    /\ expectedGrad = EmptyDate
    /\ selectedMajor = Null
    /\ majors = <<>>
    /\ edited = {}
    /\ isSaving = FALSE
    /\ preview = "null"
    /\ avatarKey = "undefined"
    /\ isUploading = FALSE
    /\ cropImage = "null"
    /\ crop = Origin
    /\ zoom = 10
    /\ croppedAreaPixels = Null
    /\ isCroppingOpen = FALSE
    /\ majorsFetches = <<>>
    /\ fileTasks = <<>>
    /\ runs = <<>>
    /\ save = IdleSave
    /\ nSaves = 0

Mount(u) ==
    /\ mounted' = TRUE
    /\ mountUser' = u
    /\ phoneNumber' = u.attributes.phoneNumber
    /\ expectedGrad' = InitialGrad(u, tz)
    /\ selectedMajor' = Null
    /\ majors' = <<>>
    /\ edited' = {}
    /\ preview' = u.avatar
    /\ avatarKey' = u.attributes.avatar
    /\ isUploading' = FALSE
    /\ cropImage' = "null"
    /\ crop' = Origin
    /\ zoom' = 10
    /\ croppedAreaPixels' = Null
    /\ isCroppingOpen' = FALSE
    /\ majorsFetches' = << MajorsRequest(u) >>

\* The render that follows a change of the page's user or loading state: the
\* editor is rendered once the page has stopped loading and has a user, and
\* stays rendered; its majors effect runs again when the user's major changes.
Rendered(u2, l2) ==
    IF ~mounted /\ ~l2 /\ u2 # Null
    THEN Mount(u2)
    ELSE /\ UNCHANGED <<mountVars, formVars, avatarVars, cropVars>>
         /\ majorsFetches' =
              IF mounted /\ u2.attributes.major # user.attributes.major
              THEN Append(majorsFetches, MajorsRequest(u2))
              ELSE majorsFetches

(***************************************************************************)
(* DashboardPeopleInfo                                                     *)
(***************************************************************************)
EmptyMap == [p \in {} |-> Null]

\* for (const team of teamsData.teams || []) teamsMap.set(team.pk, team)
LastIndexOf(ts, pk) ==
    CHOOSE i \in DOMAIN ts :
        ts[i].pk = pk /\ \A j \in DOMAIN ts : ts[j].pk = pk => j <= i

BuildTeamsMap(body) ==
    LET ts == IF body.has THEN body.teams ELSE <<>>
    IN  [p \in {ts[i].pk : i \in DOMAIN ts} |-> ts[LastIndexOf(ts, p)]]

\* userTeamsMap.get(teamPk) of a key the map does not hold
Undefined == [undefined |-> TRUE]

MapGet(teamsMap, teamPk) ==
    IF teamPk \in DOMAIN teamsMap THEN teamsMap[teamPk] ELSE Undefined

\* Object.entries(attributes?.roles || {})
RoleList(roles) == IF roles.has THEN roles.entries ELSE <<>>

\* .map(([teamPk, roleTitle]) => ({ teamPk, roleTitle, teamInfo }))
MapEntries(roles, teamsMap) ==
    [ i \in DOMAIN RoleList(roles) |->
        [ teamPk |-> RoleList(roles)[i][1], roleTitle |-> RoleList(roles)[i][2],
          teamInfo |-> MapGet(teamsMap, RoleList(roles)[i][1]) ] ]

HasTeamInfo(entry) == entry.teamInfo # Undefined

roleEntriesUnfiltered(roles, teamsMap) == MapEntries(roles, teamsMap)

\* .filter(entry => entry.teamInfo !== undefined)
roleEntries(roles, teamsMap) ==
    SelectSeq(MapEntries(roles, teamsMap), HasTeamInfo)

\* A fetchData call: the userPk its closure captured, the await it is at, the
\* username the user response gave and whether the memberof response was ok
FetchTask(pk) == [pk |-> pk, pc |-> "user", username |-> "", teams |-> "-"]

\* The state after the first render and its effect: the effect returns at
\* once when the route has no userPk, and calls fetchData otherwise.
InitWith(offsets, servers, routes) ==
    /\ tz \in offsets
    /\ server \in servers
    /\ userPk \in routes
    /\ user = Null
    /\ userTeamsMap = EmptyMap
    /\ loading = TRUE
    /\ isEditModalOpen = FALSE
    /\ nNav = 0
    /\ fetches = IF userPk = "undefined" THEN <<>> ELSE << FetchTask(userPk) >>
    /\ validation = NoValidation
    /\ Unmounted

FetchOutcomes == {"ok", "http_error", "network_error"}

\* fetchData, from the user response to the next await or the end
FetchUserResponse(i, outcome) ==
    /\ i \in DOMAIN fetches
    /\ fetches[i].pc = "user"
    /\ outcome = "ok" => fetches[i].pk \in DOMAIN server.users
    /\ IF outcome = "ok"
       THEN LET userData == server.users[fetches[i].pk]
            IN  /\ user' = userData
                /\ fetches' = [fetches EXCEPT ![i].pc = "teams",
                                              ![i].username = userData.username]
                /\ loading' = loading
       ELSE /\ user' = user
            /\ fetches' = [fetches EXCEPT ![i].pc = "done"]
            /\ loading' = FALSE
    /\ Rendered(user', loading')
    /\ UNCHANGED <<envVars, userPk, userTeamsMap, isEditModalOpen, nNav,
                   saveVars, fileTasks, runs>>

\* fetchData, from the memberof response to the end
FetchTeamsResponse(i, outcome) ==
    /\ i \in DOMAIN fetches
    /\ fetches[i].pc = "teams"
    /\ userTeamsMap' =
          IF outcome = "ok"
          THEN BuildTeamsMap(server.teams[fetches[i].username])
          ELSE userTeamsMap
    /\ fetches' = [fetches EXCEPT ![i].pc = "done",
                                  ![i].teams = IF outcome = "ok" THEN "ok"
                                               ELSE "failed"]
    /\ loading' = FALSE
    /\ Rendered(user, loading')
    /\ UNCHANGED <<envVars, userPk, user, isEditModalOpen, nNav,
                   saveVars, fileTasks, runs>>

\* The route parameter changes: the effect runs again.
Navigate(pk) ==
    /\ nNav < MaxNav
    /\ pk # userPk
    /\ userPk' = pk
    /\ nNav' = nNav + 1
    /\ fetches' = Append(fetches, FetchTask(pk))
    /\ UNCHANGED <<envVars, user, userTeamsMap, loading, isEditModalOpen,
                   mountVars, formVars, avatarVars, cropVars, majorsFetches,
                   saveVars, fileTasks, runs>>

\* The Edit Profile button, shown on the signed-in user's own page
OpenEdit ==
    /\ ~loading /\ user # Null
    /\ LoggedInPk = user.pk
    /\ ~isEditModalOpen
    /\ isEditModalOpen' = TRUE
    /\ UNCHANGED <<envVars, userPk, user, userTeamsMap, loading, fetches, nNav,
                   mountVars, formVars, avatarVars, cropVars, majorsFetches,
                   saveVars, fileTasks, runs>>

\* onClose: Cancel (disabled while saving), or the dialog's onOpenChange
CloseEdit ==
    /\ isEditModalOpen
    /\ isEditModalOpen' = FALSE
    /\ UNCHANGED <<envVars, userPk, user, userTeamsMap, loading, fetches, nNav,
                   mountVars, formVars, avatarVars, cropVars, majorsFetches,
                   saveVars, fileTasks, runs>>

(***************************************************************************)
(* validateFileSignature                                                   *)
(***************************************************************************)
HexDigits == <<"0", "1", "2", "3", "4", "5", "6", "7",
               "8", "9", "a", "b", "c", "d", "e", "f">>

\* Number.prototype.toString(16): no leading zero, so one digit below 0x10
ToString16(b) ==
    IF b < 16 THEN << HexDigits[b + 1] >>
    ELSE << HexDigits[(b \div 16) + 1], HexDigits[(b % 16) + 1] >>

RECURSIVE HeaderOf(_)
\* header += arr[i].toString(16), over the bytes read
HeaderOf(arr) ==
    IF arr = <<>> THEN <<>>
    ELSE ToString16(Head(arr)) \o HeaderOf(Tail(arr))

StartsWith(s, prefix) ==
    /\ Len(s) >= Len(prefix)
    /\ SubSeq(s, 1, Len(prefix)) = prefix

MagicPNG  == <<"8", "9", "5", "0", "4", "e", "4", "7">>
MagicJPEG == <<"f", "f", "d", "8", "f", "f">>
MagicGIF  == <<"4", "7", "4", "9", "4", "6", "3", "8">>
MagicRIFF == <<"5", "2", "4", "9", "4", "6", "4", "6">>

\* file.slice(0, 4), then subarray(0, 4)
First4(bytes) == SubSeq(bytes, 1, IF Len(bytes) < 4 THEN Len(bytes) ELSE 4)

\* readOk: whether the FileReader delivered an ArrayBuffer
validateFileSignature(file, readOk) ==
    /\ readOk
    /\ LET header == HeaderOf(First4(file.bytes))
       IN  \/ StartsWith(header, MagicPNG)
           \/ StartsWith(header, MagicJPEG)
           \/ StartsWith(header, MagicGIF)
           \/ StartsWith(header, MagicRIFF)

(***************************************************************************)
(* onFileChange                                                            *)
(***************************************************************************)
AllowedTypes == {"image/jpeg", "image/png", "image/webp", "image/gif"}
MaxFileSize == 20 * 1024 * 1024

File(id, type, size, bytes) == [id |-> id, type |-> type, size |-> size, bytes |-> bytes]

\* reader.result of readAsDataURL
DataUrl(file) == "data:" \o file.id

FileTask(file, pc, msg) == [file |-> file, pc |-> pc, sig |-> "-", msg |-> msg]

\* onFileChange up to the await of validateFileSignature
SelectFile(file) ==
    /\ mounted /\ isEditModalOpen
    /\ Len(fileTasks) < MaxFiles
    /\ fileTasks' = Append(fileTasks,
          IF file.type \notin AllowedTypes
          THEN FileTask(file, "done", "Invalid file type")
          ELSE FileTask(file, "signature", ""))
    /\ UNCHANGED <<envVars, pageVars, mountVars, formVars, avatarVars, cropVars,
                   majorsFetches, saveVars, runs>>

\* FileSignatureRead without the size check
FileSignatureReadNoSizeGate(t, readOk) ==
    /\ t \in DOMAIN fileTasks
    /\ fileTasks[t].pc = "signature"
    /\ LET file == fileTasks[t].file
           isValidSignature == validateFileSignature(file, readOk)
       IN  IF ~isValidSignature
           THEN /\ fileTasks' = [fileTasks EXCEPT ![t].pc = "done",
                                   ![t].sig = "invalid",
                                   ![t].msg = "Invalid file content"]
                /\ UNCHANGED cropVars
           ELSE /\ fileTasks' = [fileTasks EXCEPT ![t].pc = "read",
                                                  ![t].sig = "valid"]
                /\ crop' = Origin
                /\ zoom' = 10
                /\ croppedAreaPixels' = Null
                /\ UNCHANGED <<cropImage, isCroppingOpen>>
    /\ UNCHANGED <<envVars, pageVars, mountVars, formVars, avatarVars,
                   majorsFetches, saveVars, runs>>

\* onFileChange from the signature's result to the start of readAsDataURL
FileSignatureRead(t, readOk) ==
    /\ t \in DOMAIN fileTasks
    /\ fileTasks[t].pc = "signature"
    /\ LET file == fileTasks[t].file
           isValidSignature == validateFileSignature(file, readOk)
       IN  IF ~isValidSignature
           THEN /\ fileTasks' = [fileTasks EXCEPT ![t].pc = "done",
                                   ![t].sig = "invalid",
                                   ![t].msg = "Invalid file content"]
                /\ UNCHANGED cropVars
           ELSE IF file.size > MaxFileSize
           THEN /\ fileTasks' = [fileTasks EXCEPT ![t].pc = "done",
                                   ![t].sig = "valid",
                                   ![t].msg = "File is too large!"]
                /\ UNCHANGED cropVars
           ELSE /\ fileTasks' = [fileTasks EXCEPT ![t].pc = "read",
                                                  ![t].sig = "valid"]
                /\ crop' = Origin
                /\ zoom' = 10
                /\ croppedAreaPixels' = Null
                /\ UNCHANGED <<cropImage, isCroppingOpen>>
    /\ UNCHANGED <<envVars, pageVars, mountVars, formVars, avatarVars,
                   majorsFetches, saveVars, runs>>

\* FileLoaded showing the chosen file as the preview at once
FileLoadedShowsFile(t) ==
    /\ t \in DOMAIN fileTasks
    /\ fileTasks[t].pc = "read"
    /\ cropImage' = DataUrl(fileTasks[t].file)
    /\ isCroppingOpen' = TRUE
    /\ preview' = DataUrl(fileTasks[t].file)
    /\ fileTasks' = [fileTasks EXCEPT ![t].pc = "opened"]
    /\ UNCHANGED <<envVars, pageVars, mountVars, formVars, avatarKey, isUploading,
                   crop, zoom, croppedAreaPixels, majorsFetches, saveVars, runs>>

\* the reader's load listener
FileLoaded(t) ==
    /\ t \in DOMAIN fileTasks
    /\ fileTasks[t].pc = "read"
    /\ cropImage' = DataUrl(fileTasks[t].file)
    /\ isCroppingOpen' = TRUE
    /\ fileTasks' = [fileTasks EXCEPT ![t].pc = "opened"]
    /\ UNCHANGED <<envVars, pageVars, mountVars, formVars, avatarVars,
                   crop, zoom, croppedAreaPixels, majorsFetches, saveVars, runs>>

(***************************************************************************)
(* The crop dialog                                                         *)
(***************************************************************************)
ZoomMin == 10
ZoomMax == 30
CropPoints  == { Origin, [x |-> 5, y |-> 3] }
ZoomChoices == { ZoomMin, 20, ZoomMax }
Area(x, y, w, h) == [x |-> x, y |-> y, width |-> w, height |-> h]

CropDialogShown == mounted /\ isEditModalOpen /\ isCroppingOpen

\* onCropChange={setCrop}
CropChange(p) ==
    /\ CropDialogShown /\ cropImage # "null"
    /\ crop' = p
    /\ UNCHANGED <<envVars, pageVars, mountVars, formVars, avatarVars,
                   cropImage, zoom, croppedAreaPixels, isCroppingOpen,
                   majorsFetches, saveVars, fileTasks, runs>>

\* the Slider's onValueChange, the Cropper's onZoomChange
ZoomChange(z) ==
    /\ CropDialogShown
    /\ zoom' = z
    /\ UNCHANGED <<envVars, pageVars, mountVars, formVars, avatarVars,
                   cropImage, crop, croppedAreaPixels, isCroppingOpen,
                   majorsFetches, saveVars, fileTasks, runs>>

Max(a, b) == IF a >= b THEN a ELSE b
Min(a, b) == IF a <= b THEN a ELSE b

\* <Minus onClick={() => setZoom(z => Math.max(1, z - 0.1))} />
ZoomOut ==
    /\ CropDialogShown
    /\ zoom' = Max(ZoomMin, zoom - 1)
    /\ UNCHANGED <<envVars, pageVars, mountVars, formVars, avatarVars,
                   cropImage, crop, croppedAreaPixels, isCroppingOpen,
                   majorsFetches, saveVars, fileTasks, runs>>

\* <Plus onClick={() => setZoom(z => Math.min(3, z + 0.1))} />
ZoomIn ==
    /\ CropDialogShown
    /\ zoom' = Min(ZoomMax, zoom + 1)
    /\ UNCHANGED <<envVars, pageVars, mountVars, formVars, avatarVars,
                   cropImage, crop, croppedAreaPixels, isCroppingOpen,
                   majorsFetches, saveVars, fileTasks, runs>>

\* onCropComplete={(_, pixels) => setCroppedAreaPixels(pixels)}
CropComplete(a) ==
    /\ CropDialogShown /\ cropImage # "null"
    /\ croppedAreaPixels' = a
    /\ UNCHANGED <<envVars, pageVars, mountVars, formVars, avatarVars,
                   cropImage, crop, zoom, isCroppingOpen,
                   majorsFetches, saveVars, fileTasks, runs>>

\* Cancel, or the crop dialog's onOpenChange
CancelCrop ==
    /\ CropDialogShown
    /\ isCroppingOpen' = FALSE
    /\ UNCHANGED <<envVars, pageVars, mountVars, formVars, avatarVars,
                   cropImage, crop, zoom, croppedAreaPixels,
                   majorsFetches, saveVars, fileTasks, runs>>

(***************************************************************************)
(* processAndUploadAvatar                                                  *)
(***************************************************************************)
KeyNames  == <<"avatars/new-1", "avatars/new-2", "avatars/new-3", "avatars/new-4">>
BlobNames == <<"blob:1", "blob:2", "blob:3", "blob:4">>
\* the key the backend issues with the upload URL of run r
IssuedKey(r) == KeyNames[r]
\* URL.createObjectURL(uploadFile) of run r
BlobUrl(r) == BlobNames[r]

\* A run: the state its closure captured and, per phase, "-" (not begun),
\* "pending" (awaited) or its outcome.
NewRun == [ cropImage |-> cropImage, area |-> croppedAreaPixels,
            pc |-> "rasterize", rasterize |-> "pending", compress |-> "-",
            uploadUrl |-> "-", post |-> "-", msg |-> "",
            previewBefore |-> preview, keyBefore |-> avatarKey ]

\* catch, then finally
RunFailed(r, phase, outcome, msg) ==
    /\ runs' = [runs EXCEPT ![r].pc = "done", ![r][phase] = outcome, ![r].msg = msg]
    /\ isUploading' = FALSE
    /\ cropImage' = "null"

\* Crop & Upload, up to the await of getCroppedImg
CropAndUpload ==
    /\ CropDialogShown
    /\ Len(runs) < MaxRuns
    /\ IF cropImage = "null" \/ croppedAreaPixels = Null
       THEN UNCHANGED <<isUploading, isCroppingOpen, runs>>
       ELSE /\ isUploading' = TRUE
            /\ isCroppingOpen' = FALSE
            /\ runs' = Append(runs, NewRun)
    /\ UNCHANGED <<envVars, pageVars, mountVars, formVars, preview, avatarKey,
                   cropImage, crop, zoom, croppedAreaPixels,
                   majorsFetches, saveVars, fileTasks>>

RasterOutcomes == {"ok", "no_context", "empty_blob", "load_error"}
RasterMessage(outcome) ==
    CASE outcome = "no_context" -> "No 2d context"
      [] outcome = "empty_blob" -> "Canvas is empty"
      [] OTHER -> "undefined"

\* Rasterized going on to the compression whatever getCroppedImg did
RasterizedFallsBack(r, outcome) ==
    /\ r \in DOMAIN runs
    /\ runs[r].pc = "rasterize"
    /\ runs' = [runs EXCEPT ![r].pc = "compress", ![r].rasterize = outcome,
                            ![r].compress = "pending"]
    /\ UNCHANGED <<isUploading, cropImage>>
    /\ UNCHANGED <<envVars, pageVars, mountVars, formVars, preview, avatarKey,
                   crop, zoom, croppedAreaPixels, isCroppingOpen,
                   majorsFetches, saveVars, fileTasks>>

\* getCroppedImg settles; on success imageCompression is called
Rasterized(r, outcome) ==
    /\ r \in DOMAIN runs
    /\ runs[r].pc = "rasterize"
    /\ IF outcome = "ok"
       THEN /\ runs' = [runs EXCEPT ![r].pc = "compress", ![r].rasterize = "ok",
                                    ![r].compress = "pending"]
            /\ UNCHANGED <<isUploading, cropImage>>
       ELSE RunFailed(r, "rasterize", outcome, RasterMessage(outcome))
    /\ UNCHANGED <<envVars, pageVars, mountVars, formVars, preview, avatarKey,
                   crop, zoom, croppedAreaPixels, isCroppingOpen,
                   majorsFetches, saveVars, fileTasks>>

CompressOutcomes == {"ok", "error"}

\* imageCompression settles; on success the preview is set and the upload
\* URL is requested
Compressed(r, outcome) ==
    /\ r \in DOMAIN runs
    /\ runs[r].pc = "compress"
    /\ IF outcome = "ok"
       THEN /\ runs' = [runs EXCEPT ![r].pc = "uploadUrl", ![r].compress = "ok",
                                    ![r].uploadUrl = "pending"]
            /\ preview' = BlobUrl(r)
            /\ UNCHANGED <<isUploading, cropImage>>
       ELSE /\ RunFailed(r, "compress", outcome, "compression failed")
            /\ UNCHANGED preview
    /\ UNCHANGED <<envVars, pageVars, mountVars, formVars, avatarKey,
                   crop, zoom, croppedAreaPixels, isCroppingOpen,
                   majorsFetches, saveVars, fileTasks>>

\* bad_body: a success status whose body is not { uploadUrl, key, fields }
UploadUrlOutcomes == {"ok", "http_error", "network_error", "bad_body"}
UploadUrlMessage(outcome) ==
    CASE outcome = "http_error" -> "Failed to get upload URL"
      [] outcome = "network_error" -> "Failed to fetch"
      [] OTHER -> "TypeError"

\* UploadUrlResponse without "if (!res.ok) throw": a failure status goes on to
\* the POST
UploadUrlResponseUnchecked(r, outcome) ==
    /\ r \in DOMAIN runs
    /\ runs[r].pc = "uploadUrl"
    /\ IF outcome \in {"ok", "http_error"}
       THEN /\ runs' = [runs EXCEPT ![r].pc = "post", ![r].uploadUrl = outcome,
                                    ![r].post = "pending"]
            /\ UNCHANGED <<isUploading, cropImage>>
       ELSE RunFailed(r, "uploadUrl", outcome, UploadUrlMessage(outcome))
    /\ UNCHANGED <<envVars, pageVars, mountVars, formVars, preview, avatarKey,
                   crop, zoom, croppedAreaPixels, isCroppingOpen,
                   majorsFetches, saveVars, fileTasks>>

\* the upload-URL response; on success the form is POSTed to uploadUrl
UploadUrlResponse(r, outcome) ==
    /\ r \in DOMAIN runs
    /\ runs[r].pc = "uploadUrl"
    /\ IF outcome = "ok"
       THEN /\ runs' = [runs EXCEPT ![r].pc = "post", ![r].uploadUrl = "ok",
                                    ![r].post = "pending"]
            /\ UNCHANGED <<isUploading, cropImage>>
       ELSE RunFailed(r, "uploadUrl", outcome, UploadUrlMessage(outcome))
    /\ UNCHANGED <<envVars, pageVars, mountVars, formVars, preview, avatarKey,
                   crop, zoom, croppedAreaPixels, isCroppingOpen,
                   majorsFetches, saveVars, fileTasks>>

PostOutcomes == {"ok", "http_error", "network_error"}
PostMessage(outcome) ==
    IF outcome = "http_error" THEN "Failed to upload to S3" ELSE "Failed to fetch"

\* PostResponse with setAvatarKey(key) moved before the check of uploadRes.ok
PostResponseAdoptsFirst(r, outcome) ==
    /\ r \in DOMAIN runs
    /\ runs[r].pc = "post"
    /\ avatarKey' = IssuedKey(r)
    /\ IF outcome = "ok"
       THEN /\ runs' = [runs EXCEPT ![r].pc = "done", ![r].post = "ok",
                                    ![r].msg = "Profile picture updated!"]
            /\ isUploading' = FALSE
            /\ cropImage' = "null"
       ELSE RunFailed(r, "post", outcome, PostMessage(outcome))
    /\ UNCHANGED <<envVars, pageVars, mountVars, formVars, preview,
                   crop, zoom, croppedAreaPixels, isCroppingOpen,
                   majorsFetches, saveVars, fileTasks>>

\* the storage POST's response, to the end of the handler
PostResponse(r, outcome) ==
    /\ r \in DOMAIN runs
    /\ runs[r].pc = "post"
    /\ IF outcome = "ok"
       THEN /\ avatarKey' = IssuedKey(r)
            /\ runs' = [runs EXCEPT ![r].pc = "done", ![r].post = "ok",
                                    ![r].msg = "Profile picture updated!"]
            /\ isUploading' = FALSE
            /\ cropImage' = "null"
       ELSE /\ RunFailed(r, "post", outcome, PostMessage(outcome))
            /\ UNCHANGED avatarKey
    /\ UNCHANGED <<envVars, pageVars, mountVars, formVars, preview,
                   crop, zoom, croppedAreaPixels, isCroppingOpen,
                   majorsFetches, saveVars, fileTasks>>

(***************************************************************************)
(* The form                                                                *)
(***************************************************************************)
PhoneChoices == {"+1555"}
GradChoices  == { DateOnly(20100), EmptyDate }

FormShown == mounted /\ isEditModalOpen

\* <PhoneInput onChange={setPhoneNumber} />
SetPhoneNumber(p) ==
    /\ FormShown
    /\ p # phoneNumber
    /\ phoneNumber' = p
    /\ edited' = edited \cup {"phoneNumber"}
    /\ UNCHANGED <<envVars, pageVars, mountVars, expectedGrad, selectedMajor,
                   majors, avatarVars, cropVars, majorsFetches, saveVars,
                   fileTasks, runs>>

\* <Input type="date" onChange={e => setExpectedGrad(e.target.value)} />
SetExpectedGrad(d) ==
    /\ FormShown
    /\ d # expectedGrad
    /\ expectedGrad' = d
    /\ edited' = edited \cup {"expectedGrad"}
    /\ UNCHANGED <<envVars, pageVars, mountVars, phoneNumber, selectedMajor,
                   majors, avatarVars, cropVars, majorsFetches, saveVars,
                   fileTasks, runs>>

\* <CommandItem onSelect={() => setSelectedMajor(m)} />
SelectMajor(i) ==
    /\ FormShown
    /\ i \in DOMAIN majors
    /\ majors[i] # selectedMajor
    /\ selectedMajor' = majors[i]
    /\ edited' = edited \cup {"major"}
    /\ UNCHANGED <<envVars, pageVars, mountVars, phoneNumber, expectedGrad,
                   majors, avatarVars, cropVars, majorsFetches, saveVars,
                   fileTasks, runs>>

\* data.find(m => m.name === user.attributes.major)
FindMajor(data, name) ==
    IF \E i \in DOMAIN data : data[i].name = name
    THEN data[CHOOSE i \in DOMAIN data :
                 data[i].name = name /\ \A j \in 1..(i - 1) : data[j].name # name]
    ELSE Null

\* the majors/list request settles
MajorsResponse(i, ok, data) ==
    /\ i \in DOMAIN majorsFetches
    /\ majorsFetches[i].pc = "pending"
    /\ IF ok
       THEN LET currentMajor == FindMajor(data, majorsFetches[i].major)
            IN  /\ majors' = data
                /\ selectedMajor' = IF currentMajor # Null THEN currentMajor
                                    ELSE selectedMajor
                /\ majorsFetches' = [majorsFetches EXCEPT ![i].pc = "done"]
       ELSE /\ majorsFetches' = [majorsFetches EXCEPT ![i].pc = "failed",
                                    ![i].msg = "Failed to fetch majors"]
            /\ UNCHANGED <<majors, selectedMajor>>
    /\ UNCHANGED <<envVars, pageVars, mountVars, phoneNumber, expectedGrad,
                   edited, avatarVars, cropVars, saveVars, fileTasks, runs>>

(***************************************************************************)
(* handleSave                                                              *)
(***************************************************************************)
\* JSON.stringify({ major, phoneNumber, expectedGrad, avatar })
PatchBody ==
    [ major |-> IF selectedMajor = Null THEN "undefined" ELSE selectedMajor.name,
      phoneNumber |-> phoneNumber,
      expectedGrad |-> IF DateTruthy(expectedGrad)
                       THEN ToJSONDate(NewDate(expectedGrad)) ELSE UndefDate,
      avatar |-> avatarKey ]

\* the record passed to onSuccess
MergedUser(sv) ==
    [ sv.user EXCEPT
        !.avatar = IF Truthy(sv.preview) THEN sv.preview ELSE @,
        !.attributes = [ @ EXCEPT
            !.major = IF sv.selectedMajor # Null /\ Truthy(sv.selectedMajor.name)
                      THEN sv.selectedMajor.name ELSE @,
            !.phoneNumber = sv.phoneNumber,
            !.expectedGrad = IF DateTruthy(sv.expectedGrad)
                             THEN sv.expectedGrad ELSE @,
            !.avatar = IF Truthy(sv.avatarKey) THEN sv.avatarKey ELSE @ ] ]

\* Save Changes, up to the await of the PATCH
HandleSave ==
    /\ FormShown
    /\ ~isSaving
    /\ nSaves < MaxSaves
    /\ isSaving' = TRUE
    /\ nSaves' = nSaves + 1
    /\ save' = SaveTask("patch", user, phoneNumber, selectedMajor, expectedGrad,
                        avatarKey, preview, edited, PatchBody)
    /\ UNCHANGED <<envVars, pageVars, mountVars, formVars, avatarVars, cropVars,
                   majorsFetches, fileTasks, runs>>

SaveOutcomes == {"ok", "error_message", "error_no_message", "error_not_json",
                 "network_error"}
ServerErrorText == "Phone number is not valid"
GenericSaveError == "Failed to update profile"

\* e.message in the catch: err.message || "Failed to update profile" when the
\* error body parsed, else the message of what res.json() or fetch threw
SaveErrorMessage(outcome) ==
    CASE outcome = "error_message"    -> ServerErrorText
      [] outcome = "error_no_message" -> GenericSaveError
      [] outcome = "error_not_json"   -> "Unexpected token < in JSON at position 0"
      [] OTHER                        -> "Failed to fetch"

\* the PATCH settles, to the end of the handler
SaveResponse(outcome) ==
    /\ save.pc = "patch"
    /\ IF outcome = "ok"
       THEN /\ save' = [save EXCEPT !.pc = "saved", !.outcome = outcome,
                                    !.msg = "Profile updated successfully!",
                                    !.merged = MergedUser(save),
                                    !.replaced = user]
            /\ user' = MergedUser(save)
            /\ isEditModalOpen' = FALSE
       ELSE /\ save' = [save EXCEPT !.pc = "failed", !.outcome = outcome,
                                    !.msg = SaveErrorMessage(outcome)]
            /\ UNCHANGED <<user, isEditModalOpen>>
    /\ isSaving' = FALSE
    /\ Rendered(user', loading)
    /\ UNCHANGED <<envVars, userPk, userTeamsMap, loading, fetches, nNav,
                   nSaves, fileTasks, runs>>

(***************************************************************************)
(* Specifications                                                          *)
(***************************************************************************)
PngFile  == File("a.png", "image/png", 1000, <<137, 80, 78, 71>>)
TextFile == File("b.png", "image/png", 1000, <<0, 0, 0, 0>>)
Files == {PngFile, TextFile}
Areas == { Area(40, 20, 300, 300) }

DefaultServer ==
    ServerWith(DateOnly(20000), Roles(<< <<"t1", "Lead">> >>),
               TeamsBody(<< Team("t1") >>))

Init == InitWith({0}, {DefaultServer}, {"u1"})

PageLoad ==
    \/ \E i \in 1..(MaxNav + 1), o \in FetchOutcomes : FetchUserResponse(i, o)
    \/ \E i \in 1..(MaxNav + 1), o \in FetchOutcomes : FetchTeamsResponse(i, o)
    \/ OpenEdit
    \/ CloseEdit

FileNext ==
    \/ \E f \in Files : SelectFile(f)
    \/ \E t \in 1..MaxFiles, readOk \in BOOLEAN : FileSignatureRead(t, readOk)
    \/ \E t \in 1..MaxFiles : FileLoaded(t)
    \/ \E a \in Areas : CropComplete(a)
    \/ CancelCrop

RunNext ==
    \/ CropAndUpload
    \/ \E r \in 1..MaxRuns, o \in RasterOutcomes : Rasterized(r, o)
    \/ \E r \in 1..MaxRuns, o \in CompressOutcomes : Compressed(r, o)
    \/ \E r \in 1..MaxRuns, o \in UploadUrlOutcomes : UploadUrlResponse(r, o)
    \/ \E r \in 1..MaxRuns, o \in PostOutcomes : PostResponse(r, o)

SaveNext ==
    \/ HandleSave
    \/ \E o \in SaveOutcomes : SaveResponse(o)

FormNext ==
    \/ \E p \in PhoneChoices : SetPhoneNumber(p)
    \/ \E d \in GradChoices : SetExpectedGrad(d)
    \/ \E i \in 1..2 : SelectMajor(i)
    \/ \E i \in 1..(MaxNav + MaxSaves + 1), ok \in BOOLEAN, data \in MajorsResponses :
          MajorsResponse(i, ok, data)

\* The page and the avatar pipeline
Next == PageLoad \/ FileNext \/ RunNext

Spec == Init /\ [][Next]_vars

\* The page, the avatar pipeline and the save of what it staged
AdoptNext == PageLoad \/ FileNext \/ RunNext \/ SaveNext

SpecAdopt == Init /\ [][AdoptNext]_vars

\* The file input and the crop dialog, over files of every kind
JpegBytes == <<255, 216, 255, 224>>
PdfBytes  == <<37, 80, 68, 70>>
AllFiles ==
    { PngFile, TextFile,
      File("max.jpg", "image/jpeg", MaxFileSize, JpegBytes),
      File("big.jpg", "image/jpeg", MaxFileSize + 1, JpegBytes),
      File("big.png", "image/png", MaxFileSize + 1, <<0, 0, 0, 0>>),
      File("big.pdf", "application/pdf", MaxFileSize + 1, PdfBytes) }

CropNext ==
    \/ \E f \in AllFiles : SelectFile(f)
    \/ \E t \in 1..MaxFiles, readOk \in BOOLEAN : FileSignatureRead(t, readOk)
    \/ \E t \in 1..MaxFiles : FileLoaded(t)
    \/ \E p \in CropPoints : CropChange(p)
    \/ \E z \in ZoomChoices : ZoomChange(z)
    \/ ZoomOut
    \/ ZoomIn
    \/ \E a \in Areas : CropComplete(a)
    \/ CancelCrop

SpecFiles == Init /\ [][PageLoad \/ CropNext]_vars

\* The signature check, over every file of up to four bytes of ByteSet
ByteSet == {0, 13, 15, 143, 216, 255, 137, 80, 78, 71, 73, 70, 56, 82}
MaxSigLen == 4
SigFiles ==
    { File("s.png", "image/png", 1000, bytes) :
        bytes \in UNION { [1..n -> ByteSet] : n \in 0..MaxSigLen } }

SigNext ==
    \/ fileTasks = <<>> /\ \E f \in SigFiles : SelectFile(f)
    \/ \E readOk \in BOOLEAN : FileSignatureRead(1, readOk)
    \/ FileLoaded(1)

SpecSig == Init /\ [][PageLoad \/ SigNext]_vars

\* The page with route changes, the form and the save, in each time zone
SaveInit == InitWith(TzOffsets, {DefaultServer}, {"u1"})

SaveSpecNext ==
    \/ PageLoad
    \/ \E pk \in Pks : Navigate(pk)
    \/ FormNext
    \/ SaveNext

SpecSave == SaveInit /\ [][SaveSpecNext]_vars

\* The page for each roles object and each memberof body of the profile
RoleChoices ==
    { NoRoles, Roles(<<>>), Roles(<< <<"t1", "Lead">> >>),
      Roles(<< <<"t1", "Lead">>, <<"t2", "Member">> >>),
      Roles(<< <<"t3", "Advisor">>, <<"t1", "Lead">> >>) }

TeamsChoices ==
    { NoTeamsBody, TeamsBody(<<>>), TeamsBody(<< Team("t1") >>),
      TeamsBody(<< Team("t2") >>), TeamsBody(<< Team("t2"), Team("t1") >>),
      TeamsBody(<< Team("t1"), Team("t4"), Team("t1") >>) }

RoleServers ==
    { ServerWith(DateOnly(20000), r, t) : r \in RoleChoices, t \in TeamsChoices }

RolesInit == InitWith({0}, RoleServers, {"u1"})

RolesNext ==
    \/ PageLoad
    \/ \E pk \in Pks : Navigate(pk)

SpecRoles == RolesInit /\ [][RolesNext]_vars

\* The page from every route, the one without a userPk too, with a change of
\* the route
Routes == Pks \cup {"undefined"}

LoadInit == InitWith({0}, RoleServers, Routes)

LoadNext ==
    \/ PageLoad
    \/ \E pk \in Pks : Navigate(pk)

SpecLoad == LoadInit /\ [][LoadNext]_vars

\* The crop dialog with its pan and zoom, and the avatar pipeline
StartNext ==
    \/ FileNext
    \/ \E p \in CropPoints : CropChange(p)
    \/ \E z \in ZoomChoices : ZoomChange(z)
    \/ ZoomOut
    \/ ZoomIn
    \/ RunNext

SpecStart == Init /\ [][PageLoad \/ StartNext]_vars

\* validateFullName over every name of up to MaxNameLen characters
NameChars == {" ", "\t", "a", "b"}
Names == UNION { [1..n -> NameChars] : n \in 0..MaxNameLen }

\* one call in a behaviour: the function keeps no state between calls
NameNext == ~validation.called /\ \E s \in Names : ValidateFullName(s)

SpecName == Init /\ [][NameNext]_vars

(***************************************************************************)
(* The avatar pipeline's claims                                            *)
(***************************************************************************)
Failures == {"no_context", "empty_blob", "load_error", "error", "http_error",
             "network_error", "bad_body"}

\* the onFileChange call that opened the cropper on the image a run crops
SignatureCheckedFor(r) ==
    \E t \in DOMAIN fileTasks :
        /\ DataUrl(fileTasks[t].file) = runs[r].cropImage
        /\ fileTasks[t].sig = "valid"
        /\ fileTasks[t].pc = "opened"

\* C1: in every run the phases happen in the order signature check, crop
\* commit, rasterize, compress, upload-URL request, storage POST, and a phase
\* has begun only if its predecessor succeeded: nothing follows a failed or
\* rejected phase.
C1_PhasesInOrder ==
    \A r \in DOMAIN runs :
        /\ SignatureCheckedFor(r)
        /\ runs[r].cropImage # "null" /\ runs[r].area # Null
        /\ runs[r].rasterize # "-"
        /\ runs[r].compress # "-" => runs[r].rasterize = "ok"
        /\ runs[r].uploadUrl # "-" => runs[r].compress = "ok"
        /\ runs[r].post # "-" => runs[r].uploadUrl = "ok"
        /\ runs[r].pc = "done" <=>
              \/ runs[r].post = "ok"
              \/ \E ph \in {"rasterize", "compress", "uploadUrl", "post"} :
                    runs[r][ph] \in Failures

\* a run went through every phase, and another stopped at a failed phase
C1_Witness ==
    /\ \E r \in DOMAIN runs : runs[r].post = "ok"
    /\ \E r \in DOMAIN runs : runs[r].compress = "error" /\ runs[r].pc = "done"

UploadUrlFailed(r) == runs[r].uploadUrl \in {"http_error", "network_error", "bad_body"}

\* C2: when the upload-URL request of a run fails, the run sends no storage
\* POST and does not set avatarKey: the step that handles the failure leaves
\* avatarKey as it was, and avatarKey is never the key of that run.
C2_UploadUrlFailureStopsRun ==
    /\ [](\A r \in DOMAIN runs :
            UploadUrlFailed(r) =>
                /\ runs[r].post = "-"
                /\ runs[r].pc = "done"
                /\ avatarKey # IssuedKey(r))
    /\ [][\A r \in DOMAIN runs :
            (runs[r].pc = "uploadUrl" /\ runs'[r].pc = "done")
                => avatarKey' = avatarKey]_vars

\* an upload-URL request came back with a failure status
C2_Witness ==
    \E r \in DOMAIN runs : runs[r].uploadUrl = "http_error" /\ runs[r].pc = "done"

\* the keys whose upload URL was issued and whose POST succeeded
UploadedKeys ==
    { IssuedKey(r) : r \in { q \in DOMAIN runs :
                                runs[q].uploadUrl = "ok" /\ runs[q].post = "ok" } }

ServerKeys == { server.users[pk].attributes.avatar : pk \in DOMAIN server.users }

\* C3: avatarKey is the key of the user record the editor was created with or
\* a key whose upload URL and storage POST both succeeded, and so is the
\* avatar every PATCH carries; the avatar key of the page's record is one the
\* backend gave or one that was uploaded.
C3_KeyAdoptedOnlyAfterUpload ==
    mounted =>
        /\ avatarKey \in {mountUser.attributes.avatar} \cup UploadedKeys
        /\ save.pc # "idle" =>
              save.body.avatar \in {mountUser.attributes.avatar} \cup UploadedKeys
        /\ save.pc = "saved" =>
              save.merged.attributes.avatar \in ServerKeys \cup UploadedKeys
        /\ user.attributes.avatar \in ServerKeys \cup UploadedKeys

\* a save carried an uploaded key into the record, after another upload failed
C3_Witness ==
    /\ save.pc = "saved"
    /\ save.body.avatar \in UploadedKeys
    /\ user.attributes.avatar = save.body.avatar
    /\ \E r \in DOMAIN runs : runs[r].post = "http_error"

\* C4: the preview shows a run's image only once its upload-URL request and
\* its storage POST have both succeeded, and after a run that failed at
\* either, the preview is what it was before the run (no other run having
\* set it).
C4_PreviewOnlyAfterUpload ==
    \A r \in DOMAIN runs :
        /\ preview = BlobUrl(r) =>
              runs[r].uploadUrl = "ok" /\ runs[r].post = "ok"
        /\ ( /\ runs[r].pc = "done"
             /\ runs[r].uploadUrl \in Failures \/ runs[r].post \in Failures
             /\ \A q \in DOMAIN runs \ {r} : runs[q].compress # "ok" )
           => preview = runs[r].previewBefore

(***************************************************************************)
(* The file gate's claims                                                  *)
(***************************************************************************)
\* the magic numbers, as bytes
MagicNumbers == { <<137, 80, 78, 71>>, <<255, 216, 255>>,
                  <<71, 73, 70, 56>>, <<82, 73, 70, 70>> }

BeginsWithMagic(bytes) ==
    \E m \in MagicNumbers :
        Len(bytes) >= Len(m) /\ SubSeq(bytes, 1, Len(m)) = m

\* C5: a file of an allowed type whose first 4 bytes begin with none of the
\* magic numbers fails the signature check, and the cropper is not opened
\* for it.
C5_BadSignatureRejected ==
    \A t \in DOMAIN fileTasks :
        ( /\ fileTasks[t].file.type \in AllowedTypes
          /\ ~BeginsWithMagic(First4(fileTasks[t].file.bytes)) )
        => /\ fileTasks[t].sig # "valid"
           /\ fileTasks[t].pc \notin {"read", "opened"}

Oversize(file) == file.size >= 20 * 1024 * 1024 + 1

\* C6: a file of 20 MiB + 1 byte or more is rejected whatever its type and
\* content: its onFileChange never reaches the read that opens the cropper,
\* and none of its steps changes cropImage, crop, zoom, croppedAreaPixels or
\* isCroppingOpen.
C6_OversizeRejected ==
    /\ [](\A t \in DOMAIN fileTasks :
            Oversize(fileTasks[t].file) =>
                fileTasks[t].pc \in {"signature", "done"})
    /\ [][\A t \in DOMAIN fileTasks' :
            ( /\ Oversize(fileTasks'[t].file)
              /\ t \in DOMAIN fileTasks => fileTasks'[t] # fileTasks[t] )
            => UNCHANGED cropVars]_vars

\* an oversize file of an allowed type and a valid signature was rejected
\* while a cropper with a moved crop and zoom was open
C6_Witness ==
    /\ \E t \in DOMAIN fileTasks :
          /\ Oversize(fileTasks[t].file)
          /\ fileTasks[t].sig = "valid"
          /\ fileTasks[t].msg = "File is too large!"
    /\ cropImage # "null" /\ zoom # 10 /\ crop # Origin
    /\ croppedAreaPixels # Null /\ isCroppingOpen

(***************************************************************************)
(* The save's claims                                                       *)
(***************************************************************************)
\* two date strings that name the same date
SameDate(a, b) ==
    IF DateTruthy(a) /\ DateTruthy(b) THEN NewDate(a) = NewDate(b) ELSE a.k = b.k

\* C7: a successful save in which the user changed only the phone number
\* passes to onSuccess a record with the major, the expectedGrad and the
\* avatar key of the record the save started from.
C7_PhoneOnlySaveKeepsRest ==
    (save.pc = "saved" /\ save.edited = {"phoneNumber"} /\ UploadedKeys = {})
    => /\ save.merged.attributes.major = save.user.attributes.major
       /\ SameDate(save.merged.attributes.expectedGrad,
                   save.user.attributes.expectedGrad)
       /\ save.merged.attributes.avatar = save.user.attributes.avatar

\* r with the four staged fields of m
WithStagedFieldsOf(r, m) ==
    [ r EXCEPT !.avatar = m.avatar,
               !.attributes = [ @ EXCEPT !.major = m.attributes.major,
                                         !.phoneNumber = m.attributes.phoneNumber,
                                         !.expectedGrad = m.attributes.expectedGrad,
                                         !.avatar = m.attributes.avatar ] ]

\* C8: the record a successful save puts in place of the page's record
\* differs from it in phoneNumber, major, expectedGrad and avatar at most:
\* pk, username and every other field are those of the record replaced.
C8_SaveTouchesStagedFieldsOnly ==
    save.pc = "saved" =>
        /\ save.merged.pk = save.replaced.pk
        /\ save.merged.username = save.replaced.username
        /\ save.merged = WithStagedFieldsOf(save.replaced, save.merged)

\* C9: when the PATCH fails the staged edits, the page's record and the open
\* dialog are left as they are, isSaving returns to false, and the message is
\* the server's error text when the response carries one, and the generic
\* failure message otherwise.
C9_FailedSaveKeepsEdits ==
    [][(save.pc = "patch" /\ save'.pc = "failed")
        => /\ UNCHANGED <<phoneNumber, selectedMajor, expectedGrad, avatarKey,
                          preview, user, isEditModalOpen>>
           /\ isSaving' = FALSE
           /\ save'.msg = IF save'.outcome = "error_message"
                          THEN ServerErrorText ELSE GenericSaveError]_vars

(***************************************************************************)
(* The profile page's claims                                               *)
(***************************************************************************)
\* the page renders the profile, and with it the role entries
ProfileRendered == ~loading /\ user # Null

RoleEntries == roleEntries(user.attributes.roles, userTeamsMap)

\* C10: the RoleEntry list holds exactly one entry for each role whose team
\* pk is a key of the teams map, in the roles' order and with that team's
\* info, and no entry for any other role; while the teams map is empty the
\* list is empty.
C10_RoleEntriesAreResolvedRoles ==
    ProfileRendered =>
        LET rs == RoleList(user.attributes.roles)
            known == {j \in DOMAIN rs : rs[j][1] \in DOMAIN userTeamsMap}
        IN  /\ \A i \in DOMAIN RoleEntries :
                  /\ RoleEntries[i].teamInfo # Undefined
                  /\ RoleEntries[i].teamPk \in DOMAIN userTeamsMap
                  /\ RoleEntries[i].teamInfo = userTeamsMap[RoleEntries[i].teamPk]
            /\ Len(RoleEntries) = Cardinality(known)
            /\ \A j \in known :
                  Cardinality({i \in DOMAIN RoleEntries :
                                  /\ RoleEntries[i].teamPk = rs[j][1]
                                  /\ RoleEntries[i].roleTitle = rs[j][2]}) = 1
            /\ \A i, k \in DOMAIN RoleEntries :
                  i < k => \E j, l \in known :
                              /\ j < l
                              /\ rs[j][1] = RoleEntries[i].teamPk
                              /\ rs[l][1] = RoleEntries[k].teamPk
            /\ userTeamsMap = EmptyMap => RoleEntries = <<>>

\* a profile with two roles of which the teams map knows one
C10_Witness ==
    /\ ProfileRendered
    /\ Len(RoleList(user.attributes.roles)) = 2
    /\ userTeamsMap # EmptyMap
    /\ Len(RoleEntries) = 1

(***************************************************************************)
(* The editor's claims                                                     *)
(***************************************************************************)
\* C11: while the edit dialog is open the user it edits, the editor's user
\* prop, is the signed-in user, and every profile PATCH issued targets the
\* signed-in user's pk, also after the route parameter changed while the
\* dialog was open.
C11_OnlyOwnProfileEdited ==
    /\ (mounted /\ isEditModalOpen) => user.pk = LoggedInPk
    /\ save.pc # "idle" => save.user.pk = LoggedInPk

\* The object URLs created and not revoked: line 310 creates one per run that
\* reaches it, and no code of the file calls URL.revokeObjectURL.
LiveObjectUrls ==
    { BlobUrl(r) : r \in { q \in DOMAIN runs : runs[q].compress = "ok" } }

\* C12: every object URL the pipeline created, other than the one the
\* preview displays, has been revoked.
C12_ReplacedObjectUrlsRevoked == LiveObjectUrls \subseteq {preview}

\* C13: a step of a pipeline run taken while the edit dialog is closed
\* changes neither the staged preview nor the staged avatarKey.
C13_ClosedDialogDiscardsRun ==
    [][(~isEditModalOpen /\ runs' # runs) => UNCHANGED <<preview, avatarKey>>]_vars

\* run r failed at the rasterization or at the compression
RasterOrCompressFailed(r) ==
    \/ runs[r].rasterize \in {"no_context", "empty_blob", "load_error"}
    \/ runs[r].compress = "error"

\* C15: a run whose rasterization or compression failed has ended with an
\* error message, without an upload-URL request or a storage POST, and the
\* preview and avatarKey never come from it; the step that handles the
\* failure leaves preview and avatarKey as they were and sets isUploading to
\* false and cropImage to null.
C15_RasterOrCompressFailureAborts ==
    /\ [](\A r \in DOMAIN runs :
            RasterOrCompressFailed(r) =>
                /\ runs[r].pc = "done"
                /\ runs[r].uploadUrl = "-" /\ runs[r].post = "-"
                /\ runs[r].msg \notin {"", "Profile picture updated!"}
                /\ preview \notin {BlobUrl(r), runs[r].cropImage}
                /\ avatarKey # IssuedKey(r))
    /\ [][\A r \in DOMAIN runs :
            (runs[r].pc \in {"rasterize", "compress"} /\ runs'[r].pc = "done")
                => /\ UNCHANGED <<preview, avatarKey>>
                   /\ isUploading' = FALSE
                   /\ cropImage' = "null"]_vars

\* one run ended at a failed rasterization and another at a failed
\* compression
C15_Witness ==
    /\ \E r \in DOMAIN runs : runs[r].rasterize = "empty_blob" /\ runs[r].pc = "done"
    /\ \E r \in DOMAIN runs : runs[r].compress = "error" /\ runs[r].pc = "done"
    /\ preview = mountUser.avatar /\ avatarKey = mountUser.attributes.avatar

\* C16: a step of the file input or the crop dialog that starts no run
\* (selecting a file, its checks, opening the cropper, panning, zooming,
\* cancelling) leaves preview, avatarKey, isUploading and the page's user
\* as they are and sends no request; and a run starts only from an open
\* cropper with cropImage and croppedAreaPixels set.
C16_OnlyCropAndUploadStartsRun ==
    /\ [][(runs' = runs /\ (fileTasks' # fileTasks \/ cropVars' # cropVars))
            => UNCHANGED <<preview, avatarKey, isUploading, user, fetches,
                           majorsFetches, save>>]_vars
    /\ [][runs' # runs =>
            \/ Len(runs') = Len(runs)
            \/ /\ isCroppingOpen /\ cropImage # "null" /\ croppedAreaPixels # Null
               /\ runs' = Append(runs, NewRun)]_vars

\* a cropper was opened, panned, zoomed and cancelled, and no run started
C16_Witness ==
    /\ \E t \in DOMAIN fileTasks : fileTasks[t].pc = "opened"
    /\ crop # Origin /\ zoom = 21 /\ ~isCroppingOpen /\ cropImage # "null"
    /\ runs = <<>>
    /\ preview = mountUser.avatar /\ avatarKey = mountUser.attributes.avatar
    /\ ~isUploading

\* C19: while no pipeline run is in flight, the staged preview and the
\* staged avatarKey are both those the editor started with, or both those of
\* one run whose uploads succeeded.
C19_PreviewAndKeyOfOneImage ==
    (mounted /\ \A r \in DOMAIN runs : runs[r].pc = "done") =>
        \/ /\ preview = mountUser.avatar
           /\ avatarKey = mountUser.attributes.avatar
        \/ \E r \in DOMAIN runs :
              /\ runs[r].post = "ok"
              /\ preview = BlobUrl(r)
              /\ avatarKey = IssuedKey(r)

(***************************************************************************)
(* The page load's claims                                                  *)
(***************************************************************************)
\* no fetchData call is at an await
Settled == \A i \in DOMAIN fetches : fetches[i].pc = "done"

\* C17: once no fetch is in flight the page has left its loading state,
\* whatever the route parameter and the outcomes of the fetches; a page that
\* made one load then shows no user exactly when the user fetch failed, and
\* no role entry when the membership fetch failed.
C17_LoadingEnds ==
    Settled =>
        /\ ~loading
        /\ Len(fetches) = 1 =>
              /\ user = Null <=> fetches[1].username = ""
              /\ (user # Null /\ fetches[1].teams # "ok") => RoleEntries = <<>>

\* C18: once every fetch has settled, if the fetches of the latest userPk
\* succeeded then the user displayed is the one fetched for it, and the teams
\* map the one built from its memberof response.
C18_LatestRouteWins ==
    (Settled /\ fetches # <<>>) =>
        LET latest == fetches[Len(fetches)]
        IN  /\ latest.pk = userPk
            /\ latest.username # "" => user = server.users[userPk]
            /\ latest.teams = "ok" =>
                  userTeamsMap = BuildTeamsMap(server.teams[latest.username])

(***************************************************************************)
(* validateFullName's claim                                                *)
(***************************************************************************)
\* the whitespace-delimited non-empty tokens of s: one begins at every
\* character that is not whitespace and follows whitespace or nothing
TokenStarts(s) ==
    { i \in DOMAIN s : ~IsSpace(s[i]) /\ (i = 1 \/ IsSpace(s[i - 1])) }

\* C14: validateFullName(s) is valid exactly when s holds at least 2
\* whitespace-delimited non-empty tokens; otherwise it is invalid with an
\* error message, which for the empty string is "Full name is required".
C14_FullNameNeedsTwoTokens ==
    validation.called =>
        /\ validation.result.isValid <=>
              Cardinality(TokenStarts(validation.fullName)) >= 2
        /\ validation.result.isValid => validation.result.error = "undefined"
        /\ ~validation.result.isValid =>
              validation.result.error \in { "Full name is required",
                                            "Please provide both first and last name" }
        /\ validation.fullName = <<>> =>
              validation.result = Invalid("Full name is required")

\* a name of two tokens with whitespace around and between them was accepted
C14_Witness ==
    /\ validation.called
    /\ validation.fullName = <<" ", "a", "\t", " ", "b">>
    /\ validation.result.isValid
====
